---- MODULE Spec2Model ----
(***************************************************************************)
(* Model of msgpackrpc.py: the Connection class (connect / close / call)   *)
(* and the ConnectionPool class (get / put / close) used by several        *)
(* threads.  Every pool method runs under ConnectionPool._lock, so each is *)
(* one atomic action; the only place a pool method gives the lock up is    *)
(* Condition.wait() in get(), which splits a blocking get() into Get and   *)
(* Wake.  Connection.call() blocks in socket.recv(), which splits it into  *)
(* CallSend and Recv; on a stream the peer has closed, the read loop of    *)
(* _read_message goes round through RecvEmpty and FeedEmpty.               *)
(***************************************************************************)
EXTENDS Integers, Sequences, FiniteSets, TLC

\* ---------------------------------------------------------------- bounds
NThreads == 3        \* caller threads
NConns == 3          \* Connection objects that can be opened successfully
MaxCap == 2          \* largest max_size a pool is configured with
MaxCalls == 2        \* call() invocations per Connection

\* ------------------------------------------------------ program constants
MSGTYPE_REQUEST == 0
MSGTYPE_RESPONSE == 1
MSGTYPE_NOTIFICATION == 2
retries == 3

Threads == 1..NThreads
Conns == 1..NConns
NoConn == 0

VARIABLES
    expanding,    \* ConnectionPool.expanding
    max_size,     \* ConnectionPool.max_size
    connected,    \* ConnectionPool._connected
    pool,         \* ConnectionPool._pool        (list, in append order)
    queue,        \* ConnectionPool._conn_queue  (deque, index 1 = left end)
    created,      \* number of Connection objects registered so far (ids 1..created)
    overflow,     \* connections opened by get() at line 247 (saturated, idle empty)
    sock,         \* Connection._socket per connection: "none" (None), "open", or
                  \* "eof" (a socket whose peer has closed the stream)
    next_msgid,   \* Connection._next_msgid per connection
    msgids,       \* per connection, the msgids its call() invocations allocated, in order
    pc,           \* where each thread is
    ref,          \* the connection each thread got from get() and has not put back
    callid,       \* local variable msgid of the call() a thread is blocked in
    last          \* the most recently completed operation and how it ended

vars == <<expanding, max_size, connected, pool, queue, created, overflow,
          sock, next_msgid, msgids, pc, ref, callid, last>>

cfgVars == <<expanding, max_size>>
poolVars == <<connected, pool, queue, created, overflow>>
connVars == <<sock, next_msgid, msgids>>

\* ------------------------------------------------------------- helpers
InSeq(c, s) == \E i \in 1..Len(s) : s[i] = c

Front(s) == SubSeq(s, 1, Len(s) - 1)

\* list.remove(c): drops the first occurrence
ListRemove(s, c) ==
    LET i == CHOOSE k \in 1..Len(s) : s[k] = c /\ \A j \in 1..(k-1) : s[j] # c
    IN  SubSeq(s, 1, i - 1) \o SubSeq(s, i + 1, Len(s))

\* deque.appendleft(c)
AppendLeft(q, c) == <<c>> \o q

\* a pop that takes the left end, where appendleft put the newest element
PopValueLeft(q) == q[1]

\* deque.pop(): the element taken (right end)
PopValue(q) == q[Len(q)]

\* a pop that reads the right end and leaves it in the deque
PopRestPeek(q) == q

\* deque.pop(): the deque left behind
PopRest(q) == Front(q)

\* Connection.is_connected()
is_connected(c) == sock[c] # "none"

\* ConnectionPool.size / ConnectionPool.enqueued
size == Len(pool)
enqueued == Len(queue)

\* ------------------------------------------------------------ envelopes
NoEnv == [shape |-> "none", fields |-> <<>>]

\* What the unpacker can yield for a request with msgid m: arrays of 3, 4 and
\* 5 elements and a value that is not a sequence at all.
Envelopes(m) ==
    { [shape |-> "array", fields |-> <<t, i, e, r>>] :
          t \in {MSGTYPE_REQUEST, MSGTYPE_RESPONSE, MSGTYPE_NOTIFICATION},
          i \in {m, m + 1}, e \in {"nil", "err"}, r \in {"nil", "res"} }
    \cup { [shape |-> "array", fields |-> <<MSGTYPE_RESPONSE, m, "nil">>],
           [shape |-> "array", fields |-> <<MSGTYPE_RESPONSE, m, "nil", "res", "extra">>],
           [shape |-> "int", fields |-> <<>>] }

\* tries: the outcomes of the connect() attempts a get() made, in order
\* ("ok", "failed", or the exception of the last attempt)
DoneOpen(op, c, exc, val, mid, env, tries) ==
    [op |-> op, conn |-> c, exc |-> exc, val |-> val, msgid |-> mid, env |-> env,
     tries |-> tries]

Done(op, c, exc, val, mid, env) == DoneOpen(op, c, exc, val, mid, env, <<>>)

NoOp == Done("none", NoConn, "none", "nil", 0, NoEnv)

\* ----------------------------------------------------------------- Init
\* The state after ConnectionPool.__init__ returned: lazy leaves the pool
\* empty and connected; eager (_connect_pool) has opened max_size connections
\* and pushed each on the left of the idle queue.
EagerPool(n) == [i \in 1..n |-> i]
EagerQueue(n) == [i \in 1..n |-> n + 1 - i]

Init ==
    /\ expanding \in BOOLEAN
    /\ max_size \in 1..MaxCap
    /\ connected = TRUE
    /\ \E lazy \in BOOLEAN :
         IF lazy
         THEN /\ pool = <<>> /\ queue = <<>> /\ created = 0
              /\ sock = [c \in Conns |-> "none"]
         ELSE /\ pool = EagerPool(max_size) /\ queue = EagerQueue(max_size)
              /\ created = max_size
              /\ sock = [c \in Conns |-> IF c <= max_size THEN "open" ELSE "none"]
    /\ overflow = {}
    /\ next_msgid = [c \in Conns |-> 0]
    /\ msgids = [c \in Conns |-> <<>>]
    /\ pc = [t \in Threads |-> "idle"]
    /\ ref = [t \in Threads |-> NoConn]
    /\ callid = [t \in Threads |-> 0]
    /\ last = NoOp

\* ------------------------------------------------- thread-side bookkeeping
\* get() returned connection c to thread t after the connect() attempts tries
Returns(t, c, tries) ==
    /\ pc' = [pc EXCEPT ![t] = "holding"]
    /\ ref' = [ref EXCEPT ![t] = c]
    /\ last' = DoneOpen("get", c, "none", "nil", 0, NoEnv, tries)

\* get() raised exc in thread t after the connect() attempts tries
GetRaises(t, exc, tries) ==
    /\ pc' = [pc EXCEPT ![t] = "idle"]
    /\ ref' = [ref EXCEPT ![t] = NoConn]
    /\ last' = DoneOpen("get", NoConn, exc, "nil", 0, NoEnv, tries)

\* ------------------------------------------------------- ConnectionPool
\* The exceptions Connection.connect() raises on a socket error; the last
\* one is what _open_connection re-raises when every attempt failed.
OpenErrors == {"ConnectionError", "ConnectionTimeout"}

\* What the connect() calls of one _open_connection would do, one outcome
\* per iteration of `for _ in range(self.retries)`.
Attempts == [1..retries -> {"ok"} \cup OpenErrors]

\* _open_connection, lines 192-197: the iterations that run, up to the first
\* connect() that succeeds (break)
Tried(outs) ==
    IF \E i \in 1..Len(outs) : outs[i] = "ok"
    THEN SubSeq(outs, 1, CHOOSE i \in 1..Len(outs) :
                             outs[i] = "ok" /\ \A j \in 1..(i-1) : outs[j] # "ok")
    ELSE outs

\* _open_connection, lines 196-197: each failed attempt binds its exception
\* to e and sleeps; the next failure overwrites e, so of the errors only the
\* one of the last attempt is kept
Caught(tries) ==
    [i \in 1..Len(tries) |->
        IF i < Len(tries) /\ tries[i] # "ok" THEN "failed" ELSE tries[i]]

\* what one _open_connection can go through: the attempts it executes and
\* the exception it is left with
Runs == {Caught(Tried(outs)) : outs \in Attempts}

\* _open_connection, line 199: `raise e` in the else branch of the loop.  On
\* Python 2 e is still bound to the last exception caught; on Python 3 the
\* name is unbound when the except clause ends and the statement raises
\* UnboundLocalError.
Reraised(e) == {e, "UnboundLocalError"}

\* _open_connection called from get() by thread t, with the pool list p and
\* idle queue q as get() left them.  When the last attempt made succeeded the
\* new Connection is appended to _pool and returned; otherwise line 199 runs.
OpenConnection(t, p, q, asOverflow) ==
    \E tries \in Runs :
       IF tries[Len(tries)] = "ok"
       THEN /\ created < NConns
            /\ pool' = Append(p, created + 1)
            /\ queue' = q
            /\ created' = created + 1
            /\ sock' = [sock EXCEPT ![created + 1] = "open"]
            /\ overflow' = IF asOverflow THEN overflow \cup {created + 1} ELSE overflow
            /\ Returns(t, created + 1, tries)
       ELSE /\ pool' = p
            /\ queue' = q
            /\ UNCHANGED <<created, sock, overflow>>
            /\ \E e \in Reraised(tries[Len(tries)]) : GetRaises(t, e, tries)

\* get(), lines 249/255 to 261: pop the right end of the idle queue; a dead
\* connection is destroyed (list.remove raises ValueError when it is not in
\* _pool) and replaced by a newly opened one.
TakeIdle(t) ==
    LET c == PopValue(queue)
        q == PopRest(queue)
    IN  IF is_connected(c)
        THEN /\ queue' = q
             /\ UNCHANGED <<pool, created, sock, overflow>>
             /\ Returns(t, c, <<>>)
        ELSE IF InSeq(c, pool)
        THEN OpenConnection(t, ListRemove(pool, c), q, FALSE)
        ELSE /\ queue' = q
             /\ UNCHANGED <<pool, created, sock, overflow>>
             /\ GetRaises(t, "ValueError", <<>>)

\* a get() that never looks at _connected
RejectsNever(isConnected) == FALSE

\* get(), line 237: the pool refuses to hand out connections
Rejects(isConnected) == ~isConnected

\* an off-by-one capacity test
BelowCapacityInclusive(s, m) == s <= m

\* get(), line 241: lazy growth towards max_size
BelowCapacity(s, m) == s < m

\* get(), lines 251-255: the blocking loop, entered by get() and re-entered
\* after every wake-up
WaitLoop(t) ==
    IF enqueued = 0
    THEN IF Rejects(connected)
         THEN /\ GetRaises(t, "ConnectionError", <<>>)
              /\ UNCHANGED <<pool, queue, created, sock, overflow>>
         ELSE /\ pc' = [pc EXCEPT ![t] = "waiting"]
              /\ UNCHANGED <<pool, queue, created, sock, overflow, ref, last>>
    ELSE TakeIdle(t)

\* ConnectionPool.get() up to its return, its raise, or its first wait()
Get(t) ==
    /\ pc[t] = "idle"
    /\ IF Rejects(connected)
       THEN /\ GetRaises(t, "ConnectionError", <<>>)
            /\ UNCHANGED <<pool, queue, created, sock, overflow>>
       ELSE IF BelowCapacity(size, max_size)
       THEN OpenConnection(t, pool, queue, FALSE)
       ELSE IF expanding
       THEN IF enqueued = 0
            THEN OpenConnection(t, pool, queue, TRUE)
            ELSE TakeIdle(t)
       ELSE WaitLoop(t)
    /\ UNCHANGED <<cfgVars, connected, next_msgid, msgids, callid>>

\* a notified waiter re-acquires the lock and goes round the loop of line 251
Wake(t) ==
    /\ pc[t] = "woken"
    /\ WaitLoop(t)
    /\ UNCHANGED <<cfgVars, connected, next_msgid, msgids, callid>>

\* put(), line 269: room in the idle queue
HasRoom(e, s) == e < s

\* Condition.notify(): one of the threads in wait(), if any, is woken
NotifyOne(p) ==
    IF \E w \in Threads : p[w] = "waiting"
    THEN { [p EXCEPT ![w] = "woken"] : w \in {x \in Threads : p[x] = "waiting"} }
    ELSE { p }

\* a close() that forgets to notify
NotifyNobody(p) == p

\* Condition.notify_all(): every thread in wait() is woken
NotifyAll(p) == [w \in Threads |-> IF p[w] = "waiting" THEN "woken" ELSE p[w]]

\* ConnectionPool.put(conn) called by thread t with the connection its
\* variable conn refers to; afterwards the thread is at `after` and either
\* keeps that reference or drops it
PutConn(t, after, keeps) ==
    /\ LET c == ref[t]
           released == [pc EXCEPT ![t] = after]
       IN  /\ ref' = IF keeps THEN ref ELSE [ref EXCEPT ![t] = NoConn]
           /\ IF (~connected) \/ ~HasRoom(enqueued, size)
              THEN \* _destroy_connnection(conn): conn.close(), then _pool.remove(conn)
                   /\ sock' = [sock EXCEPT ![c] = "none"]
                   /\ queue' = queue
                   /\ pc' = released
                   /\ IF InSeq(c, pool)
                      THEN /\ pool' = ListRemove(pool, c)
                           /\ last' = Done("put", c, "none", "nil", 0, NoEnv)
                      ELSE /\ pool' = pool
                           /\ last' = Done("put", c, "ValueError", "nil", 0, NoEnv)
              ELSE /\ queue' = AppendLeft(queue, c)
                   /\ pc' \in NotifyOne(released)
                   /\ last' = Done("put", c, "none", "nil", 0, NoEnv)
                   /\ UNCHANGED <<pool, sock>>
    /\ UNCHANGED <<cfgVars, connected, created, overflow, next_msgid, msgids, callid>>

\* ConnectionPool.put(conn) by the thread that holds conn
Put(t) ==
    /\ pc[t] = "holding"
    /\ PutConn(t, "idle", FALSE)

\* put(conn) by a holder that keeps using its reference afterwards
PutKeep(t) ==
    /\ pc[t] = "holding"
    /\ PutConn(t, "released", TRUE)

\* a second put(conn) for the same acquisition
PutAgain(t) ==
    /\ pc[t] = "released"
    /\ PutConn(t, "idle", FALSE)

\* a close() that leaves the idle queue as it is
KeptQueue(q) == q

\* close(), line 221: self._conn_queue.clear()
ClearedQueue(q) == <<>>

\* ConnectionPool.close() by a thread that is not blocked: the queue is
\* cleared, every connection of _pool is closed and removed, waiters are woken
PoolClose(t) ==
    /\ pc[t] \in {"idle", "holding"}
    /\ queue' = ClearedQueue(queue)
    /\ sock' = [c \in Conns |-> IF InSeq(c, pool) THEN "none" ELSE sock[c]]
    /\ pool' = <<>>
    /\ connected' = FALSE
    /\ pc' = NotifyAll(pc)
    /\ last' = Done("close", NoConn, "none", "nil", 0, NoEnv)
    /\ UNCHANGED <<cfgVars, created, overflow, next_msgid, msgids, ref, callid>>

\* ----------------------------------------------------------- Connection
\* a counter that hands out its value and is never advanced
NextMsgidStuck(n) == n

\* _get_next_msgid: the counter after the increment, which is also the msgid
NextMsgid(n) == n + 1

\* a transport error raised without closing the socket
KeptOnFailure(s) == s

\* _write_message / _read_message, lines 139-141 and 157-159: self.close()
\* before the transport error is raised
ClosedOnFailure(s) == "none"

\* a call() that accepts whatever msgid comes back
MsgidAccepted(sentId, recvdId) == TRUE

\* call(), line 106
MsgidMatches(sentId, recvdId) == sentId = recvdId

\* a call() that never looks at the error field
HasErrorNever(e) == FALSE

\* call(), line 109: if error is not None
HasError(e) == e # "nil"

\* call(), lines 101-112: what call() does with the decoded message
Validate(env, msgid) ==
    IF env.shape # "array"
    THEN [exc |-> "TypeError", val |-> "nil"]          \* not iterable: not a ValueError
    ELSE IF Len(env.fields) # 4
    THEN [exc |-> "ProtocolError", val |-> "nil"]
    ELSE IF ~MsgidMatches(msgid, env.fields[2])
    THEN [exc |-> "ProtocolError", val |-> "nil"]
    ELSE IF HasError(env.fields[3])
    THEN [exc |-> "ResponseError", val |-> env.fields[3]]
    ELSE [exc |-> "none", val |-> env.fields[4]]

\* Connection.call() by the holder, up to the end of _write_message
CallSend(t) ==
    /\ pc[t] = "holding"
    /\ LET c == ref[t] IN
       IF ~is_connected(c)
       THEN /\ last' = Done("call", c, "ConnectionError", "nil", 0, NoEnv)
            /\ UNCHANGED <<sock, next_msgid, msgids, pc, callid>>
       ELSE /\ next_msgid[c] < MaxCalls
            /\ LET msgid == NextMsgid(next_msgid[c]) IN
               /\ next_msgid' = [next_msgid EXCEPT ![c] = msgid]
               /\ msgids' = [msgids EXCEPT ![c] = Append(@, msgid)]
               /\ \E out \in {"unpackable", "timeout", "error", "sent"} :
                    CASE out = "unpackable" ->
                           /\ last' = Done("call", c, "SerializationError", "nil", msgid, NoEnv)
                           /\ UNCHANGED <<sock, pc, callid>>
                      [] out = "timeout" ->
                           /\ sock' = [sock EXCEPT ![c] = ClosedOnFailure(@)]
                           /\ last' = Done("call", c, "ConnectionTimeout", "nil", msgid, NoEnv)
                           /\ UNCHANGED <<pc, callid>>
                      [] out = "error" ->
                           /\ sock' = [sock EXCEPT ![c] = ClosedOnFailure(@)]
                           /\ last' = Done("call", c, "ConnectionError", "nil", msgid, NoEnv)
                           /\ UNCHANGED <<pc, callid>>
                      [] out = "sent" ->
                           /\ pc' = [pc EXCEPT ![t] = "reading"]
                           /\ callid' = [callid EXCEPT ![t] = msgid]
                           /\ UNCHANGED <<sock, last>>
    /\ UNCHANGED <<cfgVars, poolVars, ref>>

\* Connection.call() from _read_message to its return or raise.  When
\* ConnectionPool.close() closed the socket under the reader, recv either
\* fails as a socket error or self._socket is already None (AttributeError).
Recv(t) ==
    /\ pc[t] = "reading"
    /\ sock[ref[t]] # "eof"
    /\ pc' = [pc EXCEPT ![t] = "holding"]
    /\ callid' = [callid EXCEPT ![t] = 0]
    /\ LET c == ref[t]
           msgid == callid[t]
       IN  IF ~is_connected(c)
           THEN /\ \E e \in {"AttributeError", "ConnectionError"} :
                      last' = Done("call", c, e, "nil", msgid, NoEnv)
                /\ sock' = sock
           ELSE \/ /\ sock' = [sock EXCEPT ![c] = ClosedOnFailure(@)]
                   /\ \E e \in {"ConnectionTimeout", "ConnectionError"} :
                         last' = Done("call", c, e, "nil", msgid, NoEnv)
                \/ /\ sock' = sock
                   /\ \E env \in Envelopes(msgid) :
                         LET r == Validate(env, msgid)
                         IN  last' = Done("call", c, r.exc, r.val, msgid, env)
    /\ UNCHANGED <<cfgVars, poolVars, next_msgid, msgids, ref>>

\* The peer closes the stream while call() waits for the response, before a
\* complete envelope has arrived.
PeerClose(t) ==
    /\ pc[t] = "reading"
    /\ sock[ref[t]] = "open"
    /\ sock' = [sock EXCEPT ![ref[t]] = "eof"]
    /\ UNCHANGED <<cfgVars, poolVars, next_msgid, msgids, pc, ref, callid, last>>

\* _read_message, line 148, on a stream the peer has closed: recv returns
\* b'' at once, without an error
RecvEmpty(t) ==
    /\ pc[t] = "reading"
    /\ sock[ref[t]] = "eof"
    /\ pc' = [pc EXCEPT ![t] = "feeding"]
    /\ UNCHANGED <<cfgVars, poolVars, connVars, ref, callid, last>>

\* _read_message, lines 149-151: feed(b'') gives the unpacker nothing to
\* yield, the for loop ends without a return and `while True` goes round
FeedEmpty(t) ==
    /\ pc[t] = "feeding"
    /\ pc' = [pc EXCEPT ![t] = "reading"]
    /\ UNCHANGED <<cfgVars, poolVars, connVars, ref, callid, last>>

\* Connection.close() called by the holder
ConnClose(t) ==
    /\ pc[t] = "holding"
    /\ sock' = [sock EXCEPT ![ref[t]] = "none"]
    /\ last' = Done("conn_close", ref[t], "none", "nil", 0, NoEnv)
    /\ UNCHANGED <<cfgVars, poolVars, next_msgid, msgids, pc, ref, callid>>

\* Connection.connect() called by the holder
ConnConnect(t) ==
    /\ pc[t] = "holding"
    /\ LET c == ref[t] IN
       IF is_connected(c)
       THEN /\ last' = Done("connect", c, "ConnectionError", "nil", 0, NoEnv)
            /\ sock' = sock
       ELSE \/ /\ sock' = [sock EXCEPT ![c] = "open"]
               /\ last' = Done("connect", c, "none", "nil", 0, NoEnv)
            \/ /\ sock' = sock
               /\ \E e \in OpenErrors : last' = Done("connect", c, e, "nil", 0, NoEnv)
    /\ UNCHANGED <<cfgVars, poolVars, next_msgid, msgids, pc, ref, callid>>

\* ------------------------------------------------------- specifications
\* The pool and its callers.  A holder uses its connection through
\* Connection.close() and Connection.connect(): what the pool reads of a
\* connection is _socket alone, and a transport failure inside call() leaves
\* it exactly as Connection.close() does.
Next ==
    \E t \in Threads :
        \/ Get(t)
        \/ Wake(t)
        \/ Put(t)
        \/ PoolClose(t)
        \/ ConnClose(t)
        \/ ConnConnect(t)

Spec == Init /\ [][Next]_vars

\* A notified waiter is eventually scheduled and re-acquires the lock.
FairSpec == Spec /\ \A t \in Threads : WF_vars(Wake(t))

\* ... and every holder eventually calls put().
FairPutSpec == FairSpec /\ \A t \in Threads : WF_vars(Put(t))

\* Connections used on their own, the pool left untouched: callers 1 and 2
\* each constructed a Connection of their own (Connection.__init__: no
\* socket, counter 0), connection 1 for caller 1 and connection 2 for caller 2.
InitConn ==
    /\ expanding = FALSE
    /\ max_size = 1
    /\ connected = TRUE
    /\ pool = <<>>
    /\ queue = <<>>
    /\ created = 0
    /\ overflow = {}
    /\ sock = [c \in Conns |-> "none"]
    /\ next_msgid = [c \in Conns |-> 0]
    /\ msgids = [c \in Conns |-> <<>>]
    /\ pc = [t \in Threads |-> IF t <= 2 THEN "holding" ELSE "idle"]
    /\ ref = [t \in Threads |-> IF t <= 2 THEN t ELSE NoConn]
    /\ callid = [t \in Threads |-> 0]
    /\ last = NoOp

NextConn ==
    \E t \in Threads :
        \/ CallSend(t)
        \/ Recv(t)
        \/ PeerClose(t)
        \/ RecvEmpty(t)
        \/ FeedEmpty(t)
        \/ ConnClose(t)
        \/ ConnConnect(t)

SpecConn == InitConn /\ [][NextConn]_vars

\* Every socket operation returns and a running call() keeps running: a
\* recv that has something to return does return, and the thread inside
\* _read_message executes its next statement.
FairConnSpec ==
    SpecConn /\ \A t \in Threads :
                   WF_vars(Recv(t)) /\ WF_vars(RecvEmpty(t)) /\ WF_vars(FeedEmpty(t))

\* The pool with callers that may release one acquisition twice.
NextDouble ==
    \E t \in Threads :
        \/ Get(t)
        \/ Wake(t)
        \/ Put(t)
        \/ PutKeep(t)
        \/ PutAgain(t)
        \/ PoolClose(t)

SpecDouble == Init /\ [][NextDouble]_vars

\* =============================================================== claims
Holders(c) == {t \in Threads : ref[t] = c}

\* C1: in blocking mode the number of connections registered in the pool
\* never exceeds max_size, whatever get(), put(), close(), failed opens and
\* dead-connection replacements happened.
C1_BlockingSizeBounded == (~expanding) => size <= max_size

\* C1 witness: a blocking pool at capacity after a dead connection was
\* replaced (more connections were opened than max_size), with a waiter.
C1_Witness ==
    /\ ~expanding
    /\ size = max_size
    /\ created > max_size
    /\ \E t \in Threads : pc[t] = "waiting"

\* C2: under correct discipline no connection is held by two callers at the
\* same time, and a held connection is not in the idle queue from which
\* get() could hand it to a second caller; in both modes.
C2_OneHolder ==
    \A c \in Conns :
        /\ Cardinality(Holders(c)) <= 1
        /\ (Holders(c) # {} => ~InSeq(c, queue))

\* C2 witness: two callers hold connections and the last get() was served
\* from the idle queue (it returned a connection older than the newest one).
C2_Witness ==
    /\ Cardinality({t \in Threads : ref[t] # NoConn}) >= 2
    /\ last.op = "get"
    /\ last.conn # NoConn
    /\ last.conn < created

GetFailed == Done("get", NoConn, "ConnectionError", "nil", 0, NoEnv)

\* C3: when close() runs while threads are suspended in a blocking get(),
\* none of them stays in wait(), each of them eventually leaves get(), and
\* each leaves it by raising ConnectionError, without a connection.
C3_CloseFailsWaiters ==
    /\ []((~connected) => \A t \in Threads : pc[t] # "waiting")
    /\ \A t \in Threads : (pc[t] = "woken" /\ ~connected) ~> (pc[t] = "idle")
    /\ [][\A t \in Threads :
            (pc[t] = "woken" /\ ~connected /\ pc'[t] # "woken")
               => (pc'[t] = "idle" /\ ref'[t] = NoConn /\ last' = GetFailed)]_vars

\* C3 witness: the pool was closed while two threads were suspended in get().
C3_Witness ==
    /\ ~connected
    /\ Cardinality({t \in Threads : pc[t] = "woken"}) >= 2

\* C4: a closed pool stays closed and empty, every get() on it raises
\* ConnectionError, and it opens no connection and hands none out.
C4_ClosedIsTerminal ==
    /\ []((~connected) =>
            /\ size = 0
            /\ enqueued = 0
            /\ (last.op = "get" => last = GetFailed))
    /\ [][(~connected) =>
            /\ ~connected'
            /\ created' = created
            /\ \A t \in Threads : pc'[t] = "holding" => pc[t] = "holding"]_vars

\* C4 witness: a get() was made on a closed pool, after a release into it.
C4_Witness ==
    /\ ~connected
    /\ last.op = "get"
    /\ created >= 2

\* C5: in expanding mode a connection opened by a saturated get() with an
\* empty idle queue is destroyed when it is released: once nobody holds it,
\* it is closed, out of the pool and not in the idle queue.
C5_OverflowDestroyedOnRelease ==
    expanding =>
        \A c \in overflow :
            Holders(c) = {} =>
                (~InSeq(c, queue) /\ ~InSeq(c, pool) /\ ~is_connected(c))

\* C6: in expanding mode, whenever the pool is connected and every acquired
\* connection has been released, it holds at most max_size connections.
C6_SteadyStateWithinCap ==
    (expanding /\ connected /\ \A t \in Threads : ref[t] = NoConn)
        => size <= max_size

\* C7: in blocking mode on a pool that is not closed, a get() suspended in
\* wait() eventually returns a connection (or fails opening its own
\* replacement connection), given that every holder eventually calls put().
C7_BlockedGetCompletes ==
    \A t \in Threads :
        (pc[t] = "waiting" /\ ~expanding)
            ~> (pc[t] = "holding" \/ pc[t] = "idle" \/ ~connected)

\* C8: on every connection the msgids allocated by successive call()s are
\* 1, 2, 3, ... in order (strictly increasing, distinct, starting at 1) and
\* the counter is the number of msgids allocated: failed calls, close() and
\* connect() never reset or reuse it.
C8_MsgidsIncrease ==
    \A c \in Conns :
        /\ next_msgid[c] = Len(msgids[c])
        /\ \A i \in 1..Len(msgids[c]) : msgids[c][i] = i

\* C8 witness: connection 1 was connected again after a call() had already
\* allocated msgid 1 on it, and its counter still stands at 1.
C8_Witness ==
    /\ last.op = "connect"
    /\ last.exc = "none"
    /\ last.conn = 1
    /\ msgids[1] = <<1>>
    /\ next_msgid[1] = 1

TransportErrors == {"ConnectionTimeout", "ConnectionError"}

\* C9: when call() ends with ConnectionTimeout or ConnectionError, the
\* connection is closed at that moment.
C9_ClosedOnTransportFailure ==
    (last.op = "call" /\ last.exc \in TransportErrors)
        => ~is_connected(last.conn)

\* C9 witness: a call() whose request was written failed while reading the
\* response with a timeout.
C9_Witness ==
    /\ last.op = "call"
    /\ last.exc = "ConnectionTimeout"
    /\ last.msgid >= 1
    /\ pc[1] = "holding"
    /\ ~is_connected(last.conn)

MsgidMismatch ==
    /\ last.op = "call"
    /\ last.env.shape = "array"
    /\ Len(last.env.fields) = 4
    /\ last.env.fields[2] # last.msgid

\* C10: when the envelope read carries another msgid than the request,
\* call() raises ProtocolError, returns nothing of the envelope, and leaves
\* the connection connected.
C10_MismatchIsProtocolError ==
    MsgidMismatch =>
        /\ last.exc = "ProtocolError"
        /\ last.val = "nil"
        /\ is_connected(last.conn)

\* C10 witness: a well-formed Response with a null error and a foreign msgid
\* was read.
C10_Witness ==
    /\ MsgidMismatch
    /\ last.env.fields[1] = MSGTYPE_RESPONSE
    /\ last.env.fields[3] = "nil"

\* a 4-element envelope carrying the msgid of the request was read
MatchingEnvelope ==
    /\ last.op = "call"
    /\ last.env.shape = "array"
    /\ Len(last.env.fields) = 4
    /\ last.env.fields[2] = last.msgid

\* C11: when the envelope matching the request has a non-null error field,
\* call() raises ResponseError carrying exactly that value, whatever the
\* result field is; it returns the result field only when the error is null.
C11_ErrorFieldDecides ==
    MatchingEnvelope =>
        IF last.env.fields[3] # "nil"
        THEN last.exc = "ResponseError" /\ last.val = last.env.fields[3]
        ELSE last.exc = "none" /\ last.val = last.env.fields[4]

\* C11 witness: a matching Response with both a non-null error and a
\* non-null result was read.
C11_Witness ==
    /\ MatchingEnvelope
    /\ last.env.fields[1] = MSGTYPE_RESPONSE
    /\ last.env.fields[3] = "err"
    /\ last.env.fields[4] = "res"

\* C12: put(conn) on a closed pool completes normally (no exception reaches
\* the releasing caller), leaves conn disconnected and leaves the pool's
\* connection set and idle queue empty.
C12_PutOnClosedPoolSucceeds ==
    (last.op = "put" /\ ~connected) =>
        /\ last.exc = "none"
        /\ sock[last.conn] = "none"
        /\ size = 0
        /\ enqueued = 0

\* the threads that got c from get() and have not released it
Using(c) == {t \in Threads : ref[t] = c /\ pc[t] = "holding"}

\* C13: a second put(conn) for one acquisition never puts conn twice in the
\* idle queue, never leaves in the idle queue a connection that is not in
\* the pool's connection set, and never lets two callers hold conn at once.
C13_DoubleReleaseSafe ==
    /\ \A i, j \in 1..Len(queue) : queue[i] = queue[j] => i = j
    /\ \A i \in 1..Len(queue) : InSeq(queue[i], pool)
    /\ \A c \in Conns : Cardinality(Using(c)) <= 1

\* C14: close() leaves every checked-out connection as it was: a connection
\* that a caller holds when close() runs has the same socket after close()
\* as before (a connected one is still connected).
C14_CloseSparesCheckedOut ==
    [][(last'.op = "close")
          => \A t \in Threads :
                 pc[t] = "holding" => sock'[ref[t]] = sock[ref[t]]]_vars

\* get() by thread t returned a connection that was in the idle queue
Served(t) ==
    /\ pc[t] # "holding"
    /\ pc'[t] = "holding"
    /\ InSeq(ref'[t], queue)

\* C15 as stated: a get() served from the idle queue returns the connection
\* released most recently; here the operation completed just before it was
\* the put() that enqueued that connection at the left end.
C15_TakesMostRecent ==
    [][\A t \in Threads :
          (Served(t) /\ last.op = "put" /\ last.conn = queue[1])
              => ref'[t] = last.conn]_vars

\* C15 amended: put() enqueues at the left end and a get() served from the
\* idle queue takes the right end, so it returns the connection that has
\* been idle the longest (FIFO) and leaves the later releases queued.
C15_TakesOldest ==
    [][\A t \in Threads :
          /\ (pc[t] = "holding" /\ pc'[t] = "idle" /\ Len(queue') > Len(queue))
                => queue' = <<ref[t]>> \o queue
          /\ Served(t)
                => (ref'[t] = queue[Len(queue)] /\ queue' = Front(queue))]_vars

\* C15 witness: connections 2 and 3, both opened by get() and so both
\* released by their callers, were idle with 3 released after 2; get()
\* returned 2 and left 3 in the queue.
C15_Witness ==
    /\ last.op = "get"
    /\ last.conn = 2
    /\ queue = <<3>>
    /\ max_size = 1
    /\ is_connected(2)

\* the connection a get() pops from the idle queue
Oldest == queue[Len(queue)]

\* this step is a get() that popped a dead connection from the idle queue
TookDead ==
    /\ last'.op = "get"
    /\ Len(queue') < Len(queue)
    /\ sock[Oldest] = "none"

\* ConnectionError and its subclass ConnectionTimeout
ConnectionErrors == {"ConnectionError", "ConnectionTimeout"}

\* C16: every connection get() returns is connected when get() returns; a
\* dead connection popped from the idle queue is closed and out of the pool
\* and the queue afterwards; when its replacement was opened the pool's size
\* is unchanged and the replacement is returned; when it could not be opened
\* get() raises ConnectionError.
C16_ReturnsLiveConnection ==
    [][/\ \A t \in Threads :
             (pc[t] # "holding" /\ pc'[t] = "holding") => sock'[ref'[t]] = "open"
       /\ TookDead =>
             /\ ~InSeq(Oldest, pool')
             /\ ~InSeq(Oldest, queue')
             /\ sock'[Oldest] = "none"
             /\ IF last'.exc = "none"
                THEN /\ size' = size
                     /\ last'.conn # Oldest
                     /\ sock'[last'.conn] = "open"
                ELSE last'.exc \in ConnectionErrors]_vars

\* this step is a get() that returned or raised (a get() that goes to wait()
\* completes nothing)
GetDone ==
    /\ last'.op = "get"
    /\ \A t \in Threads : pc'[t] = "waiting" => pc[t] = "waiting"

\* C17: an open makes at most `retries` connect() attempts and none after
\* the first success; on success exactly one connection, the one returned,
\* is appended to the pool; when every attempt failed get() raises the error
\* of the last attempt and registers nothing.
C17_RetryingOpen ==
    [][(GetDone /\ last'.tries # <<>>) =>
          LET tr == last'.tries
              n == Len(tr)
              base == IF TookDead THEN size - 1 ELSE size
          IN  /\ n <= retries
              /\ \A i \in 1..(n - 1) : tr[i] = "failed"
              /\ IF tr[n] = "ok"
                 THEN /\ last'.exc = "none"
                      /\ created' = created + 1
                      /\ last'.conn = created'
                      /\ size' = base + 1
                      /\ pool'[size'] = last'.conn
                 ELSE /\ n = retries
                      /\ last'.exc = tr[n]
                      /\ created' = created
                      /\ size' = base]_vars

\* C18: with every acquisition released at most once, in every reachable
\* state each connection of the idle queue is in _pool, none is queued
\* twice, none is held by a caller, and so enqueued <= size.
C18_QueueWithinPool ==
    /\ \A i \in 1..Len(queue) : InSeq(queue[i], pool)
    /\ \A i, j \in 1..Len(queue) : queue[i] = queue[j] => i = j
    /\ \A i \in 1..Len(queue) : Holders(queue[i]) = {}
    /\ enqueued <= size

\* C18 witness: an expanding pool grown beyond max_size whose connections
\* are all idle but one, which a caller holds.
C18_Witness ==
    /\ expanding
    /\ size > max_size
    /\ enqueued = size - 1
    /\ enqueued >= 2
    /\ \E t \in Threads : pc[t] = "holding" /\ InSeq(ref[t], pool)

\* the value decoded for the last call() is a 4-element array tagged Response
IsResponse(env) ==
    /\ env.shape = "array"
    /\ Len(env.fields) = 4
    /\ env.fields[1] = MSGTYPE_RESPONSE

\* C19: a call() that decoded anything but a 4-field Response raises
\* ProtocolError; in particular it returns no result for a 4-element envelope
\* tagged Request or Notification that carries the msgid of the request.
C19_OnlyResponsesAccepted ==
    (last.op = "call" /\ last.env # NoEnv /\ ~IsResponse(last.env))
        => last.exc = "ProtocolError"

\* C20: every call() that has written its request eventually returns or
\* raises, also when the peer closes the stream before a complete envelope
\* has arrived.
C20_CallTerminates ==
    \A t \in Threads :
        (pc[t] \in {"reading", "feeding"}) ~> (pc[t] = "holding")

====
